---- MODULE Spec2Model ----
(***************************************************************************)
(* Model of the RAG prototype: the word chunker                            *)
(* (src/document_processor/chunking.py), the ingest run                    *)
(* (scripts/ingest_docs.py), the query run (scripts/query_rag.py) and the  *)
(* client constructors they call (src/gcp_clients).                        *)
(*                                                                         *)
(* A text is a sequence of characters.  Indices into the element list of   *)
(* the chunker are kept 0-based as in the Python code; element i of the    *)
(* code is words_and_spaces[i + 1] here.                                   *)
(***************************************************************************)
EXTENDS Integers, Sequences, FiniteSets, TLC

\* ------------------------------------------------------------------ bounds
MaxTextLen == 7
MaxChunkSize == 3
MaxChunkOverlap == 3
MaxDocs == 3
MaxTopK == 3
MaxConstructions == 3
MaxFairTextLen == 5

\* ------------------------------------------------------------- characters
Alphabet == {"a", " ", "\n"}

\* \s of the regular expression and str.isspace() on one character
IsSpaceChar(c) == c \in {" ", "\n"}

RECURSIVE TextsOfLen(_)
TextsOfLen(n) ==
  IF n = 0 THEN {<<>>}
  ELSE {Append(t, c) : t \in TextsOfLen(n - 1), c \in Alphabet}

Texts == UNION {TextsOfLen(n) : n \in 0..MaxTextLen}

VARIABLES
  text, chunk_size, chunk_overlap,   \* arguments of basic_word_chunker
  words_and_spaces,                  \* the element list
  current_element_idx,               \* cursor of the main loop
  chunks,                            \* the list being built
  spans,                             \* per chunk, the element range it was joined from
  cpc                                \* position in basic_word_chunker

chunkerVars ==
  <<text, chunk_size, chunk_overlap, words_and_spaces, current_element_idx,
    chunks, spans, cpc>>

\* ---------------------------------------------------------------- chunker

\* length of the longest prefix of t whose characters all satisfy / all fail \s
RECURSIVE PrefixLen(_, _)
PrefixLen(t, space) ==
  IF t = <<>> \/ IsSpaceChar(t[1]) # space THEN 0
  ELSE 1 + PrefixLen(Tail(t), space)

\* re.split(r'(\s+)', text): the pieces between whitespace runs (possibly
\* empty) alternating with the captured whitespace runs
RECURSIVE ReSplit(_)
ReSplit(t) ==
  LET w == PrefixLen(t, FALSE)
      rest == SubSeq(t, w + 1, Len(t))
      s == PrefixLen(rest, TRUE)
  IN IF s = 0 THEN <<SubSeq(t, 1, w)>>
     ELSE <<SubSeq(t, 1, w), SubSeq(rest, 1, s)>>
            \o ReSplit(SubSeq(rest, s + 1, Len(rest)))

\* filter(None, ...): drop the empty strings
FilterNone(seq) == SelectSeq(seq, LAMBDA e : e # <<>>)

SplitElements(t) == FilterNone(ReSplit(t))

\* element.isspace(): every character is whitespace and there is at least one
IsSpace(e) == e # <<>> /\ \A i \in 1..Len(e) : IsSpaceChar(e[i])

\* " ".join(elements): a separator is inserted between the elements
RECURSIVE Join_WithSeparator(_)
Join_WithSeparator(elems) ==
  IF elems = <<>> THEN <<>>
  ELSE IF Len(elems) = 1 THEN Head(elems)
  ELSE Head(elems) \o <<" ">> \o Join_WithSeparator(Tail(elems))

\* "".join(elements)
RECURSIVE Join(_)
Join(elems) == IF elems = <<>> THEN <<>> ELSE Head(elems) \o Join(Tail(elems))

\* the accumulation loop of one pass: returns temp_idx after the loop
RECURSIVE AccumulateLoop(_, _, _, _)
AccumulateLoop(ws, temp_idx, current_word_count, size) ==
  IF temp_idx < Len(ws) /\ current_word_count < size
  THEN AccumulateLoop(ws, temp_idx + 1,
                      IF IsSpace(ws[temp_idx + 1]) THEN current_word_count
                      ELSE current_word_count + 1,
                      size)
  ELSE temp_idx

\* the advance ignores the overlap
WordsToAdvance_NoOverlap(size, overlap) == size

WordsToAdvance(size, overlap) ==
  IF size - overlap <= 0 THEN 1 ELSE size - overlap

\* the advance loop: returns elements_to_advance_count
RECURSIVE AdvanceLoop(_, _, _, _, _)
AdvanceLoop(ws, temp_advance_idx, counted, elements_to_advance_count, words_to_advance) ==
  IF temp_advance_idx < Len(ws) /\ counted < words_to_advance
  THEN LET c2 == IF IsSpace(ws[temp_advance_idx + 1]) THEN counted ELSE counted + 1
       IN IF c2 >= words_to_advance
          THEN elements_to_advance_count + 1
          ELSE AdvanceLoop(ws, temp_advance_idx + 1, c2,
                           elements_to_advance_count + 1, words_to_advance)
  ELSE elements_to_advance_count

\* a pass that leaves the cursor where it was
Pass_CursorStays(ws, cur, size, overlap) ==
  LET temp_idx == AccumulateLoop(ws, cur, 0, size)
      chunk == Join(SubSeq(ws, cur + 1, temp_idx))
  IN [chunk |-> chunk,
      temp_idx |-> temp_idx,
      stop |-> temp_idx >= Len(ws),
      next_idx |-> cur]

\* one pass of the main loop started with the cursor at cur
Pass(ws, cur, size, overlap) ==
  LET temp_idx == AccumulateLoop(ws, cur, 0, size)
      chunk == Join(SubSeq(ws, cur + 1, temp_idx))
      adv == AdvanceLoop(ws, cur, 0, 0, WordsToAdvance(size, overlap))
      next == IF adv = 0 THEN cur + 1 ELSE cur + adv
  IN [chunk |-> chunk,
      temp_idx |-> temp_idx,
      stop |-> temp_idx >= Len(ws) \/ next >= Len(ws),
      next_idx |-> IF temp_idx >= Len(ws) THEN cur ELSE next]

RECURSIVE MainLoop(_, _, _, _, _)
MainLoop(ws, cur, acc, size, overlap) ==
  IF cur < Len(ws)
  THEN LET p == Pass(ws, cur, size, overlap)
       IN IF p.stop THEN Append(acc, p.chunk)
          ELSE MainLoop(ws, p.next_idx, Append(acc, p.chunk), size, overlap)
  ELSE acc

\* the whole function, as its callers see it
basic_word_chunker(t, size, overlap) ==
  IF t = <<>> THEN [raised |-> FALSE, chunks |-> <<>>]
  ELSE IF size <= overlap THEN [raised |-> TRUE, chunks |-> <<>>]
  ELSE [raised |-> FALSE, chunks |-> MainLoop(SplitElements(t), 0, <<>>, size, overlap)]

\* --------------------------------------------------------- configuration
\* config/config.py.  A string option is modelled by what the checks of the
\* program can tell about it.
StrOptions ==
  {"PROJECT_ID", "REGION", "SERVICE_ACCOUNT_KEY_PATH", "GCS_BUCKET_NAME",
   "EMBEDDING_MODEL_NAME", "LLM_MODEL_NAME",
   "VECTOR_STORE_INDEX_ENDPOINT_ID", "VECTOR_STORE_DEPLOYED_INDEX_ID"}

\* "valid": a real value; "undefined": the name is not in config.py;
\* "empty": None or ""; "YOUR_X": a template placeholder such as
\* "YOUR_PROJECT_ID"; "YOUR_ACTUAL_X": a placeholder such as
\* "YOUR_ACTUAL_ENDPOINT_ID"
ValueKinds == {"valid", "undefined", "empty", "YOUR_X", "YOUR_ACTUAL_X"}

Truthy(v) == v \notin {"undefined", "empty"}
ContainsYOUR(v) == v \in {"YOUR_X", "YOUR_ACTUAL_X"}
ContainsYOUR_ACTUAL(v) == v = "YOUR_ACTUAL_X"

DefaultChunkSize == 250
DefaultChunkOverlap == 30
DefaultTopK == 3
PreviewLen == 200

VARIABLES
  entry,                 \* which script runs: "ingest", "query"
  pc,                    \* position of the script
  cfg,                   \* string options of config.py
  CHUNK_SIZE, CHUNK_OVERLAP, TOP_K_RESULTS,
  key_exists,            \* os.path.exists(credentials_full_path)
  SDK_AVAILABLE,         \* vertex_ai_client: the vertexai import succeeded
  VertexAIClient_cls,    \* class attributes _instance, _vertex_ai_initialized
  VectorStoreClient_cls, \* class attributes _instance, _vertex_ai_initialized_by_vector_client
  constructed,           \* client constructors entered so far
  ext,                   \* SDK / service calls made so far
  init_failed,           \* initialisation steps that failed
  files_to_process,
  doc_idx,               \* number of documents the loop has gone through
  doc_log,               \* per document gone through: what was fetched and embedded
  chunk_failed,          \* documents for which the chunker raised
  all_embeddings_for_vector_store,
  uuid_ctr,              \* uuid4() values drawn so far
  upsert_calls,          \* payloads of the upsert_embeddings calls made
  upsert_success,        \* results of those calls
  ret,                   \* <<>> while running or when None is returned, else <<value>>
  user_query,
  neighbors,
  prompts,               \* prompts passed to get_llm_completion
  output,                \* what the query run presents
  llm_results,           \* values get_llm_completion returned
  match_raised,          \* the nearest-neighbor call of the SDK raised
  construct_log,         \* constructor calls of a process, in order
  init_runs              \* per class: entries into the _instance is None block

\* the two singleton client classes
ClientClasses == {"VertexAIClient", "VectorStoreClient"}

pipelineVars ==
  <<entry, pc, cfg, CHUNK_SIZE, CHUNK_OVERLAP, TOP_K_RESULTS, key_exists,
    SDK_AVAILABLE, VertexAIClient_cls, VectorStoreClient_cls, constructed, ext,
    init_failed, files_to_process, doc_idx, doc_log, chunk_failed,
    all_embeddings_for_vector_store, uuid_ctr, upsert_calls, upsert_success,
    ret, user_query, neighbors, prompts, output, llm_results, match_raised,
    construct_log, init_runs>>

vars == <<chunkerVars, pipelineVars>>

\* the options as a client module sees them: when one of the names it imports
\* is missing, the except ImportError branch sets all of them to None
ModuleView(names) ==
  IF \E n \in names : cfg[n] = "undefined"
  THEN [n \in names |-> "empty"]
  ELSE [n \in names |-> cfg[n]]

AllTruthy(view) == \A n \in DOMAIN view : Truthy(view[n])

VertexNames ==
  {"PROJECT_ID", "REGION", "SERVICE_ACCOUNT_KEY_PATH", "EMBEDDING_MODEL_NAME",
   "LLM_MODEL_NAME"}

VectorNames ==
  {"PROJECT_ID", "REGION", "SERVICE_ACCOUNT_KEY_PATH",
   "VECTOR_STORE_INDEX_ENDPOINT_ID", "VECTOR_STORE_DEPLOYED_INDEX_ID"}

IngestNames ==
  {"GCS_BUCKET_NAME", "PROJECT_ID", "REGION", "SERVICE_ACCOUNT_KEY_PATH"}

QueryNames == {"PROJECT_ID", "REGION", "SERVICE_ACCOUNT_KEY_PATH"}

\* ---------------------------------------------------------------- clients
NoVertexInstance == [created |-> FALSE, embedding_model |-> "unset", llm_model |-> "unset"]
NoVectorInstance == [created |-> FALSE, index_endpoint |-> "unset"]

\* GCSClient.__init__: credOk is the outcome of from_service_account_json
GCSClient_init(keyExists, credOk) ==
  IF ~keyExists THEN [raised |-> TRUE, calls |-> {}, failed |-> {"gcs_key"}]
  ELSE IF ~credOk THEN [raised |-> TRUE, calls |-> {"storage.Client"}, failed |-> {"gcs_client"}]
  ELSE [raised |-> FALSE, calls |-> {"storage.Client"}, failed |-> {}]

\* a constructor that forgets the instance when its initialisation raises
VertexAIClient_new_ResetOnFailure(cls, view, keyExists, sdkAvailable, initOk, loadOk) ==
  LET fresh == [created |-> TRUE, embedding_model |-> "unset", llm_model |-> "unset"]
      partial == cls
  IN IF ~sdkAvailable
       THEN [raised |-> TRUE, cls |-> cls, calls |-> {}, failed |-> {"vertex_sdk"}]
     ELSE IF cls.instance.created
       THEN [raised |-> FALSE, cls |-> cls, calls |-> {}, failed |-> {}]
     ELSE IF ~AllTruthy(view)
       THEN [raised |-> TRUE, cls |-> partial, calls |-> {}, failed |-> {"vertex_config"}]
     ELSE IF ~keyExists
       THEN [raised |-> TRUE, cls |-> partial, calls |-> {}, failed |-> {"vertex_key"}]
     ELSE IF ~cls.vertex_ai_initialized /\ ~initOk
       THEN [raised |-> TRUE, cls |-> partial, calls |-> {"vertexai.init"},
             failed |-> {"vertexai.init"}]
     ELSE [raised |-> FALSE,
           cls |-> [instance |-> [created |-> TRUE,
                                  embedding_model |-> IF loadOk THEN "loaded" ELSE "None",
                                  llm_model |-> "None"],
                    vertex_ai_initialized |-> TRUE],
           calls |-> (IF cls.vertex_ai_initialized THEN {} ELSE {"vertexai.init"})
                       \cup {"TextEmbeddingModel.from_pretrained"},
           failed |-> IF loadOk THEN {} ELSE {"embedding_model"}]

\* VertexAIClient.__new__: initOk is the outcome of vertexai.init, loadOk of
\* TextEmbeddingModel.from_pretrained
VertexAIClient_new(cls, view, keyExists, sdkAvailable, initOk, loadOk) ==
  LET fresh == [created |-> TRUE, embedding_model |-> "unset", llm_model |-> "unset"]
      partial == [cls EXCEPT !.instance = fresh]
  IN IF ~sdkAvailable
       THEN [raised |-> TRUE, cls |-> cls, calls |-> {}, failed |-> {"vertex_sdk"}]
     ELSE IF cls.instance.created
       THEN [raised |-> FALSE, cls |-> cls, calls |-> {}, failed |-> {}]
     ELSE IF ~AllTruthy(view)
       THEN [raised |-> TRUE, cls |-> partial, calls |-> {}, failed |-> {"vertex_config"}]
     ELSE IF ~keyExists
       THEN [raised |-> TRUE, cls |-> partial, calls |-> {}, failed |-> {"vertex_key"}]
     ELSE IF ~cls.vertex_ai_initialized /\ ~initOk
       THEN [raised |-> TRUE, cls |-> partial, calls |-> {"vertexai.init"},
             failed |-> {"vertexai.init"}]
     ELSE [raised |-> FALSE,
           cls |-> [instance |-> [created |-> TRUE,
                                  embedding_model |-> IF loadOk THEN "loaded" ELSE "None",
                                  llm_model |-> "None"],
                    vertex_ai_initialized |-> TRUE],
           calls |-> (IF cls.vertex_ai_initialized THEN {} ELSE {"vertexai.init"})
                       \cup {"TextEmbeddingModel.from_pretrained"},
           failed |-> IF loadOk THEN {} ELSE {"embedding_model"}]

\* VectorStoreClient.__new__: aiInit is what the guarded aiplatform.init did
\* ("skipped", "ok" or "raised", which is only logged), connectOk the outcome
\* of MatchingEngineIndexEndpoint(...)
VectorStoreClient_new(cls, view, keyExists, aiInit, connectOk) ==
  LET fresh == [created |-> TRUE, index_endpoint |-> "unset"]
      partial == [cls EXCEPT !.instance = fresh]
      initCalls == IF aiInit = "skipped" THEN {} ELSE {"aiplatform.init"}
  IN IF cls.instance.created
       THEN [raised |-> FALSE, cls |-> cls, calls |-> {}, failed |-> {}]
     ELSE IF ~AllTruthy(view)
       THEN [raised |-> TRUE, cls |-> partial, calls |-> {}, failed |-> {"vector_config"}]
     ELSE IF \/ ContainsYOUR_ACTUAL(view["VECTOR_STORE_INDEX_ENDPOINT_ID"])
             \/ ContainsYOUR_ACTUAL(view["VECTOR_STORE_DEPLOYED_INDEX_ID"])
       THEN [raised |-> TRUE, cls |-> partial, calls |-> {}, failed |-> {"vector_config"}]
     ELSE IF ~keyExists
       THEN [raised |-> TRUE, cls |-> partial, calls |-> {}, failed |-> {"vector_key"}]
     ELSE IF ~connectOk
       THEN [raised |-> TRUE,
             cls |-> [instance |-> fresh,
                      initialized_by_vector_client |-> (aiInit = "ok")],
             calls |-> initCalls \cup {"MatchingEngineIndexEndpoint"},
             failed |-> {"index_endpoint"}]
     ELSE [raised |-> FALSE,
           cls |-> [instance |-> [created |-> TRUE, index_endpoint |-> "connected"],
                    initialized_by_vector_client |-> (aiInit = "ok")],
           calls |-> initCalls \cup {"MatchingEngineIndexEndpoint"},
           failed |-> {}]

\* [None] * n
RECURSIVE Nones(_)
Nones(n) == IF n = 0 THEN <<>> ELSE <<"null">> \o Nones(n - 1)

RECURSIVE Vecs(_)
Vecs(n) == IF n = 0 THEN <<>> ELSE <<"vec">> \o Vecs(n - 1)

\* what the embedding service may answer to a batch of n texts: either it
\* raises, or it returns a list of values
SdkEmbeddingOutcomes(n) ==
  {[raises |-> TRUE, values |-> <<>>]}
    \cup {[raises |-> FALSE, values |-> v] :
            v \in {Vecs(n), Vecs(n + 1)}
                    \cup (IF n >= 1 THEN {Vecs(n - 1), <<"null">> \o Vecs(n - 1)} ELSE {})}

\* VertexAIClient.get_text_embeddings on n texts
get_text_embeddings(inst, n, sdk) ==
  IF inst.embedding_model = "None" THEN [result |-> Nones(n), calls |-> {}]
  ELSE IF n = 0 THEN [result |-> <<>>, calls |-> {}]
  ELSE IF sdk.raises THEN [result |-> Nones(n), calls |-> {"get_embeddings"}]
  ELSE [result |-> sdk.values, calls |-> {"get_embeddings"}]

\* VertexAIClient.get_llm_completion: loadOk is the outcome of
\* TextGenerationModel.from_pretrained, answer of predict ("null" when it raises)
get_llm_completion(inst, loadOk, answer) ==
  IF inst.llm_model = "None" /\ ~loadOk
  THEN [result |-> "null", inst |-> inst,
        calls |-> {"TextGenerationModel.from_pretrained"}]
  ELSE [result |-> answer, inst |-> [inst EXCEPT !.llm_model = "loaded"],
        calls |-> (IF inst.llm_model = "None"
                   THEN {"TextGenerationModel.from_pretrained"} ELSE {})
                    \cup {"predict"}]

\* VectorStoreClient.upsert_embeddings: sdkOk is the outcome of upsert_datapoints
upsert_embeddings(items, sdkOk) ==
  IF items = <<>> THEN [success |-> TRUE, calls |-> {}]
  ELSE [success |-> sdkOk, calls |-> {"upsert_datapoints"}]

\* find_neighbors without its except branch taking effect
find_neighbors_KeepsResponse(raises, response) ==
  IF response = <<>> THEN <<>>
  ELSE response[1]

\* VectorStoreClient.find_neighbors: response is what match returned, <<>>
\* for an empty response
find_neighbors(raises, response) ==
  IF raises THEN <<>>
  ELSE IF response = <<>> THEN <<>>
  ELSE response[1]

\* ----------------------------------------------------------------- ingest
AllDocNames ==
  << <<"example.txt">>, <<"docA">>, <<"my", "_chunk_", "notes.txt">>, <<"docB">>,
     <<"docC">> >>

UuidPool ==
  <<"u01", "u02", "u03", "u04", "u05", "u06", "u07", "u08", "u09", "u10",
    "u11", "u12", "u13", "u14", "u15", "u16", "u17", "u18", "u19", "u20">>

\* what download_text_file may return: None, or the decoded text
DownloadResults ==
  {[present |-> FALSE, text |-> <<>>]}
    \cup {[present |-> TRUE, text |-> t] :
            t \in {<<>>, <<" ">>, <<"a", " ", "a", " ", "a", " ", "a">>}}

\* text.strip()
RECURSIVE Strip(_)
Strip(t) ==
  IF t = <<>> THEN <<>>
  ELSE IF IsSpaceChar(t[1]) THEN Strip(Tail(t))
  ELSE IF IsSpaceChar(t[Len(t)]) THEN Strip(SubSeq(t, 1, Len(t) - 1))
  ELSE t

\* chunk_text[:200] + "..." if len(chunk_text) > 200 else chunk_text
TextPreview(chunk_text) ==
  IF Len(chunk_text) > PreviewLen
  THEN SubSeq(chunk_text, 1, PreviewLen) \o <<".", ".", ".">>
  ELSE chunk_text

\* the count check accepts a list that is longer than the chunk list
EmbeddingCountMatches_AtLeast(chunk_embeddings, doc_chunks) ==
  Len(chunk_embeddings) >= Len(doc_chunks)

\* not (chunk_embeddings is None or len(chunk_embeddings) != len(chunks))
EmbeddingCountMatches(chunk_embeddings, doc_chunks) ==
  Len(chunk_embeddings) = Len(doc_chunks)

\* the record loop of one document; ctr counts the uuids drawn before it
RECURSIVE DocRecords(_, _, _, _, _)
DocRecords(doc_name, doc_chunks, chunk_embeddings, i, ctr) ==
  IF i >= Len(doc_chunks) THEN <<>>
  ELSE IF chunk_embeddings[i + 1] # "null"
  THEN << [id |-> doc_name \o <<"_chunk_", UuidPool[ctr + 1]>>,
           embedding |-> chunk_embeddings[i + 1],
           metadata |-> [source_document_name |-> doc_name,
                         chunk_index |-> i,
                         text_preview |-> TextPreview(doc_chunks[i + 1])]] >>
         \o DocRecords(doc_name, doc_chunks, chunk_embeddings, i + 1, ctr + 1)
  ELSE DocRecords(doc_name, doc_chunks, chunk_embeddings, i + 1, ctr)

ValidConfig == [n \in StrOptions |-> "valid"]

\* configurations with at most one option that is not a real value; the runs
\* with such an option are explored on one document / one neighbor
Configs ==
  {ValidConfig}
    \cup {[n \in StrOptions |-> IF n = bad THEN k ELSE "valid"] :
            bad \in StrOptions, k \in ValueKinds \ {"valid"}}

PipelineIdle ==
  /\ entry = "none"
  /\ pc = "idle"
  /\ cfg = ValidConfig
  /\ CHUNK_SIZE = DefaultChunkSize
  /\ CHUNK_OVERLAP = DefaultChunkOverlap
  /\ TOP_K_RESULTS = DefaultTopK
  /\ key_exists = TRUE
  /\ SDK_AVAILABLE = TRUE
  /\ VertexAIClient_cls = [instance |-> NoVertexInstance, vertex_ai_initialized |-> FALSE]
  /\ VectorStoreClient_cls = [instance |-> NoVectorInstance,
                              initialized_by_vector_client |-> FALSE]
  /\ constructed = {}
  /\ ext = {}
  /\ init_failed = {}
  /\ files_to_process = <<>>
  /\ doc_idx = 0
  /\ doc_log = <<>>
  /\ chunk_failed = {}
  /\ all_embeddings_for_vector_store = <<>>
  /\ uuid_ctr = 0
  /\ upsert_calls = <<>>
  /\ upsert_success = <<>>
  /\ ret = <<>>
  /\ user_query = <<>>
  /\ neighbors = <<>>
  /\ prompts = <<>>
  /\ output = [label |-> "none", sources |-> <<>>]
  /\ llm_results = <<>>
  /\ match_raised = FALSE
  /\ construct_log = <<>>
  /\ init_runs = [c \in ClientClasses |-> 0]

PipelineInit ==
  /\ entry \in {"ingest", "query"}
  /\ pc = "start"
  /\ cfg \in Configs
  /\ IF entry = "ingest"
     THEN /\ CHUNK_SIZE \in 0..MaxChunkSize
          /\ CHUNK_OVERLAP \in 0..MaxChunkOverlap
          /\ TOP_K_RESULTS = DefaultTopK
          /\ \E n \in 1..(IF cfg = ValidConfig THEN MaxDocs ELSE 1) :
               files_to_process = SubSeq(AllDocNames, 1, n)
          /\ user_query = <<>>
     ELSE /\ CHUNK_SIZE = DefaultChunkSize
          /\ CHUNK_OVERLAP = DefaultChunkOverlap
          /\ TOP_K_RESULTS \in 0..(IF cfg = ValidConfig THEN MaxTopK ELSE 1)
          /\ files_to_process = <<>>
          /\ user_query = <<"q">>
  /\ key_exists \in BOOLEAN
  /\ SDK_AVAILABLE \in BOOLEAN
  /\ VertexAIClient_cls = [instance |-> NoVertexInstance, vertex_ai_initialized |-> FALSE]
  /\ VectorStoreClient_cls = [instance |-> NoVectorInstance,
                              initialized_by_vector_client |-> FALSE]
  /\ constructed = {}
  /\ ext = {}
  /\ init_failed = {}
  /\ doc_idx = 0
  /\ doc_log = <<>>
  /\ chunk_failed = {}
  /\ all_embeddings_for_vector_store = <<>>
  /\ uuid_ctr = 0
  /\ upsert_calls = <<>>
  /\ upsert_success = <<>>
  /\ ret = <<>>
  /\ neighbors = <<>>
  /\ prompts = <<>>
  /\ output = [label |-> "none", sources |-> <<>>]
  /\ llm_results = <<>>
  /\ match_raised = FALSE
  /\ construct_log = <<>>
  /\ init_runs = [c \in ClientClasses |-> 0]

ingestVars ==
  <<files_to_process, doc_idx, doc_log, chunk_failed,
    all_embeddings_for_vector_store, uuid_ctr, upsert_calls, upsert_success>>
queryVars == <<user_query, neighbors, prompts, output, llm_results, match_raised>>
historyVars == <<construct_log, init_runs>>
configVars ==
  <<entry, cfg, CHUNK_SIZE, CHUNK_OVERLAP, TOP_K_RESULTS, key_exists, SDK_AVAILABLE>>
clientVars == <<VertexAIClient_cls, VectorStoreClient_cls, constructed, ext, init_failed>>

\* ingest_docs.py: the import of config and the __main__ block
IngestMain ==
  /\ entry = "ingest" /\ pc = "start"
  /\ pc' = IF \E n \in IngestNames : cfg[n] = "undefined" THEN "exit"
           ELSE IF \/ \E n \in IngestNames : ~Truthy(cfg[n])
                   \/ CHUNK_SIZE = 0
                   \/ CHUNK_OVERLAP = 0
                   \/ \E n \in IngestNames : ContainsYOUR(cfg[n])
             THEN "config_error"
           ELSE "init_gcs"
  /\ UNCHANGED <<chunkerVars, configVars, historyVars, clientVars, ingestVars, queryVars, ret>>

\* process_and_ingest_documents: GCSClient(...)
IngestInitGCS ==
  /\ entry = "ingest" /\ pc = "init_gcs"
  /\ \E credOk \in BOOLEAN :
       LET r == GCSClient_init(key_exists, credOk)
       IN /\ constructed' = constructed \cup {"GCSClient"}
          /\ ext' = ext \cup r.calls
          /\ init_failed' = init_failed \cup r.failed
          /\ pc' = IF r.raised THEN "fatal" ELSE "init_vertex"
  /\ UNCHANGED <<chunkerVars, configVars, historyVars, VertexAIClient_cls, VectorStoreClient_cls,
                 ingestVars, queryVars, ret>>

\* both scripts: VertexAIClient()
InitVertexAIClient ==
  /\ pc = "init_vertex"
  /\ \E initOk \in BOOLEAN, loadOk \in BOOLEAN :
       LET r == VertexAIClient_new(VertexAIClient_cls, ModuleView(VertexNames),
                                   key_exists, SDK_AVAILABLE, initOk, loadOk)
       IN /\ constructed' = constructed \cup {"VertexAIClient"}
          /\ VertexAIClient_cls' = r.cls
          /\ ext' = ext \cup r.calls
          /\ init_failed' = init_failed \cup r.failed
          /\ pc' = IF r.raised THEN "fatal" ELSE "init_vector"
  /\ UNCHANGED <<chunkerVars, configVars, historyVars, VectorStoreClient_cls, ingestVars, queryVars, ret>>

\* both scripts: VectorStoreClient()
InitVectorStoreClient ==
  /\ pc = "init_vector"
  /\ \E aiInit \in {"skipped", "ok", "raised"}, connectOk \in BOOLEAN :
       LET r == VectorStoreClient_new(VectorStoreClient_cls, ModuleView(VectorNames),
                                      key_exists, aiInit, connectOk)
       IN /\ constructed' = constructed \cup {"VectorStoreClient"}
          /\ VectorStoreClient_cls' = r.cls
          /\ ext' = ext \cup r.calls
          /\ init_failed' = init_failed \cup r.failed
          /\ pc' = IF r.raised THEN "fatal"
                   ELSE IF entry = "ingest" THEN "loop" ELSE "embed_query"
  /\ UNCHANGED <<chunkerVars, configVars, historyVars, VertexAIClient_cls, ingestVars, queryVars, ret>>

\* one iteration of the document loop
IngestDocument ==
  /\ entry = "ingest" /\ pc = "loop"
  /\ doc_idx < Len(files_to_process)
  /\ LET doc_name == files_to_process[doc_idx + 1]
         after == IF doc_idx + 1 = Len(files_to_process) THEN "upsert" ELSE "loop"
     IN \E text_content \in DownloadResults :
          IF ~text_content.present \/ Strip(text_content.text) = <<>> THEN
            /\ doc_log' = Append(doc_log, [content |-> text_content, requested |-> FALSE,
                                           embeddings |-> <<>>])
            /\ ext' = ext \cup {"download"}
            /\ doc_idx' = doc_idx + 1
            /\ pc' = after
            /\ UNCHANGED <<chunk_failed, all_embeddings_for_vector_store, uuid_ctr>>
          ELSE
            LET c == basic_word_chunker(text_content.text, CHUNK_SIZE, CHUNK_OVERLAP)
            IN IF c.raised THEN
                 /\ chunk_failed' = chunk_failed \cup {doc_idx + 1}
                 /\ ext' = ext \cup {"download"}
                 /\ pc' = "raised"
                 /\ UNCHANGED <<doc_log, doc_idx, all_embeddings_for_vector_store, uuid_ctr>>
               ELSE IF c.chunks = <<>> THEN
                 /\ doc_log' = Append(doc_log, [content |-> text_content,
                                                requested |-> FALSE, embeddings |-> <<>>])
                 /\ ext' = ext \cup {"download"}
                 /\ doc_idx' = doc_idx + 1
                 /\ pc' = after
                 /\ UNCHANGED <<chunk_failed, all_embeddings_for_vector_store, uuid_ctr>>
               ELSE
                 \E sdk \in SdkEmbeddingOutcomes(Len(c.chunks)) :
                   LET e == get_text_embeddings(VertexAIClient_cls.instance,
                                                Len(c.chunks), sdk)
                       recs == IF EmbeddingCountMatches(e.result, c.chunks)
                               THEN DocRecords(doc_name, c.chunks, e.result, 0, uuid_ctr)
                               ELSE <<>>
                   IN /\ doc_log' = Append(doc_log, [content |-> text_content,
                                                     requested |-> TRUE,
                                                     embeddings |-> e.result])
                      /\ ext' = ext \cup {"download"} \cup e.calls
                      /\ all_embeddings_for_vector_store'
                           = all_embeddings_for_vector_store \o recs
                      /\ uuid_ctr' = uuid_ctr + Len(recs)
                      /\ doc_idx' = doc_idx + 1
                      /\ pc' = after
                      /\ UNCHANGED chunk_failed
  /\ UNCHANGED <<chunkerVars, configVars, historyVars, VertexAIClient_cls, VectorStoreClient_cls,
                 constructed, init_failed, files_to_process, upsert_calls,
                 upsert_success, queryVars, ret>>

\* after the loop: the batched upsert and the end of the function
IngestUpsert ==
  /\ entry = "ingest" /\ pc = "upsert"
  /\ IF all_embeddings_for_vector_store # <<>> THEN
       \E sdkOk \in BOOLEAN :
         LET u == upsert_embeddings(all_embeddings_for_vector_store, sdkOk)
         IN /\ upsert_calls' = Append(upsert_calls, all_embeddings_for_vector_store)
            /\ upsert_success' = Append(upsert_success, u.success)
            /\ ext' = ext \cup u.calls
     ELSE UNCHANGED <<upsert_calls, upsert_success, ext>>
  /\ pc' = "done"
  /\ ret' = <<>>
  /\ UNCHANGED <<chunkerVars, configVars, historyVars, VertexAIClient_cls, VectorStoreClient_cls,
                 constructed, init_failed, files_to_process, doc_idx, doc_log,
                 chunk_failed, all_embeddings_for_vector_store, uuid_ctr, queryVars>>

\* ------------------------------------------------------------------ query
\* record ids are token sequences; "_chunk_" is one token
NeighborIds ==
  {<<"docA", "_chunk_", "u01">>, <<"docA", "_chunk_", "u02">>,
   <<"docB", "_chunk_", "u03">>,
   <<"my", "_chunk_", "notes.txt", "_chunk_", "u04">>,
   <<"other">>}

RECURSIVE DistinctSeqs(_, _)
DistinctSeqs(S, n) ==
  IF n = 0 THEN {<<>>}
  ELSE {<<>>} \cup {<<x>> \o q : x \in S, q \in DistinctSeqs(S, n - 1)}

HasNoRepeat(q) == \A i, j \in 1..Len(q) : q[i] = q[j] => i = j

\* what match may return for one query asking for k neighbors
NeighborLists(k) ==
  {[i \in 1..Len(q) |-> [id |-> q[i], distance |-> i]] :
     q \in {x \in DistinctSeqs(NeighborIds, k) : HasNoRepeat(x)}}

\* "_chunk_" in id
HasChunkSeparator(id) == \E i \in 1..Len(id) : id[i] = "_chunk_"

\* id.split("_chunk_")[0]
RECURSIVE SplitFirst(_)
SplitFirst(id) ==
  IF id = <<>> \/ Head(id) = "_chunk_" THEN <<>>
  ELSE <<Head(id)>> \o SplitFirst(Tail(id))

\* the tokens in the order of Python's string comparison
TokenOrder ==
  <<"_chunk_", "docA", "docB", "docC", "example.txt", "my", "notes.txt", "other", "q",
    "u01", "u02", "u03", "u04">>

TokenRank(t) == CHOOSE i \in 1..Len(TokenOrder) : TokenOrder[i] = t

RECURSIVE StrLess(_, _)
StrLess(a, b) ==
  IF b = <<>> THEN FALSE
  ELSE IF a = <<>> THEN TRUE
  ELSE IF Head(a) = Head(b) THEN StrLess(Tail(a), Tail(b))
  ELSE TokenRank(Head(a)) < TokenRank(Head(b))

\* list(a_set) in an order that is not the sorted one
RECURSIVE Sorted_Descending(_)
Sorted_Descending(S) ==
  IF S = {} THEN <<>>
  ELSE LET m == CHOOSE x \in S : \A y \in S \ {x} : StrLess(y, x)
       IN <<m>> \o Sorted_Descending(S \ {m})

\* sorted(list(a_set))
RECURSIVE Sorted(_)
Sorted(S) ==
  IF S = {} THEN <<>>
  ELSE LET m == CHOOSE x \in S : \A y \in S \ {x} : StrLess(x, y)
       IN <<m>> \o Sorted(S \ {m})

\* the loop over the neighbors: the placeholder context lines
RECURSIVE ContextParts(_)
ContextParts(ns) ==
  IF ns = <<>> THEN <<>>
  ELSE <<"Retrieved information related to ID">> \o Head(ns).id \o <<".">>
         \o ContextParts(Tail(ns))

SourceDocumentsCited(ns) ==
  {SplitFirst(ns[i].id) : i \in {j \in 1..Len(ns) : HasChunkSeparator(ns[j].id)}}

PromptForLLM(ns, q) ==
  <<"PREAMBLE", "CONTEXT:">> \o ContextParts(ns) \o <<"QUESTION:">> \o q \o <<"ANSWER:">>

\* what predict may give back; "null" stands for None, "empty" for ""
Answers == {"null", "empty", "text"}
\* if llm_response is not None
AnswerTruthy_NotNone(a) == a # "null"
\* if llm_response:
AnswerTruthy(a) == a = "text"

\* query_rag.py: the import of config and the __main__ block
QueryMain ==
  /\ entry = "query" /\ pc = "start"
  /\ pc' = IF \E n \in QueryNames : cfg[n] = "undefined" THEN "exit"
           ELSE IF (\E n \in QueryNames : ~Truthy(cfg[n])) \/ TOP_K_RESULTS = 0
             THEN "config_error"
           ELSE "init_vertex"
  /\ UNCHANGED <<chunkerVars, configVars, historyVars, clientVars, ingestVars, queryVars, ret>>

\* search_and_answer: the query embedding
EmbedQuery ==
  /\ entry = "query" /\ pc = "embed_query"
  /\ \E sdk \in SdkEmbeddingOutcomes(1) :
       LET e == get_text_embeddings(VertexAIClient_cls.instance, 1, sdk)
           failed == e.result = <<>> \/ e.result[1] = "null"
       IN /\ ext' = ext \cup e.calls
          /\ pc' = IF failed THEN "done" ELSE "find_neighbors"
          /\ output' = IF failed THEN [label |-> "embedding_failed", sources |-> <<>>]
                       ELSE output
  /\ UNCHANGED <<chunkerVars, configVars, historyVars, VertexAIClient_cls, VectorStoreClient_cls,
                 constructed, init_failed, ingestVars, user_query, neighbors, prompts,
                 llm_results, match_raised, ret>>

\* search_and_answer: the nearest-neighbor search
FindNeighbors ==
  /\ entry = "query" /\ pc = "find_neighbors"
  /\ \E raises \in BOOLEAN,
        response \in {<<>>} \cup {<<l>> : l \in NeighborLists(TOP_K_RESULTS)} :
       /\ neighbors' = find_neighbors(raises, response)
       /\ match_raised' = raises
       /\ pc' = IF find_neighbors(raises, response) = <<>> THEN "fallback" ELSE "answer"
  /\ ext' = ext \cup {"match"}
  /\ UNCHANGED <<chunkerVars, configVars, historyVars, VertexAIClient_cls, VectorStoreClient_cls,
                 constructed, init_failed, ingestVars, user_query, prompts, output,
                 llm_results, ret>>

\* search_and_answer: no neighbors, the completion is asked the bare query
FallbackAnswer ==
  /\ entry = "query" /\ pc = "fallback"
  /\ \E loadOk \in BOOLEAN, answer \in Answers :
       LET r == get_llm_completion(VertexAIClient_cls.instance, loadOk, answer)
       IN /\ prompts' = Append(prompts, user_query)
          /\ VertexAIClient_cls' = [VertexAIClient_cls EXCEPT !.instance = r.inst]
          /\ ext' = ext \cup r.calls
          /\ llm_results' = Append(llm_results, r.result)
          /\ output' = IF AnswerTruthy(r.result)
                       THEN [label |-> "general_knowledge", sources |-> <<>>]
                       ELSE [label |-> "no_answer", sources |-> <<>>]
  /\ pc' = "done"
  /\ UNCHANGED <<chunkerVars, configVars, historyVars, VectorStoreClient_cls, constructed,
                 init_failed, ingestVars, user_query, neighbors, match_raised, ret>>

\* search_and_answer: context, prompt, completion and the displayed result
GroundedAnswer ==
  /\ entry = "query" /\ pc = "answer"
  /\ \E loadOk \in BOOLEAN, answer \in Answers :
       LET r == get_llm_completion(VertexAIClient_cls.instance, loadOk, answer)
       IN /\ prompts' = Append(prompts, PromptForLLM(neighbors, user_query))
          /\ VertexAIClient_cls' = [VertexAIClient_cls EXCEPT !.instance = r.inst]
          /\ ext' = ext \cup r.calls
          /\ llm_results' = Append(llm_results, r.result)
          /\ output' = IF AnswerTruthy(r.result)
                       THEN [label |-> "rag_answer",
                             sources |-> Sorted(SourceDocumentsCited(neighbors))]
                       ELSE [label |-> "no_answer_from_context", sources |-> <<>>]
  /\ pc' = "done"
  /\ UNCHANGED <<chunkerVars, configVars, historyVars, VectorStoreClient_cls, constructed,
                 init_failed, ingestVars, user_query, neighbors, match_raised, ret>>

\* ------------------------------------------------- the chunker, stepwise
\* the same function, one loop pass at a time
ChunkerInit ==
  /\ text \in Texts
  /\ chunk_size \in 1..MaxChunkSize
  /\ chunk_overlap \in 0..MaxChunkOverlap
  /\ words_and_spaces = <<>>
  /\ current_element_idx = 0
  /\ chunks = <<>>
  /\ spans = <<>>
  /\ cpc = "entry"

ChunkerIdle ==
  /\ text = <<>>
  /\ chunk_size = 1
  /\ chunk_overlap = 0
  /\ words_and_spaces = <<>>
  /\ current_element_idx = 0
  /\ chunks = <<>>
  /\ spans = <<>>
  /\ cpc = "idle"

\* the calls explored for termination: the kinds of whitespace are not told
\* apart by the split or by isspace, so one of them is kept
FairTexts == {t \in Texts : Len(t) <= MaxFairTextLen /\ \A i \in 1..Len(t) : t[i] # "\n"}

ChunkerFairInit ==
  /\ text \in FairTexts
  /\ chunk_size \in 1..MaxChunkSize
  /\ chunk_overlap \in 0..MaxChunkOverlap
  /\ words_and_spaces = <<>>
  /\ current_element_idx = 0
  /\ chunks = <<>>
  /\ spans = <<>>
  /\ cpc = "entry"

ChunkerEntry ==
  /\ cpc = "entry"
  /\ IF text = <<>> THEN
       /\ cpc' = "returned"
       /\ UNCHANGED words_and_spaces
     ELSE IF chunk_size <= chunk_overlap THEN
       /\ cpc' = "raised"
       /\ UNCHANGED words_and_spaces
     ELSE
       /\ words_and_spaces' = SplitElements(text)
       /\ cpc' = IF SplitElements(text) = <<>> THEN "returned" ELSE "loop"
  /\ UNCHANGED <<text, chunk_size, chunk_overlap, current_element_idx, chunks, spans>>
  /\ UNCHANGED pipelineVars

ChunkerPass ==
  /\ cpc = "loop"
  /\ IF current_element_idx < Len(words_and_spaces) THEN
       LET p == Pass(words_and_spaces, current_element_idx, chunk_size, chunk_overlap)
       IN /\ chunks' = Append(chunks, p.chunk)
          /\ spans' = Append(spans, [from |-> current_element_idx, to |-> p.temp_idx])
          /\ current_element_idx' = p.next_idx
          /\ cpc' = IF p.stop THEN "returned" ELSE "loop"
     ELSE
       /\ cpc' = "returned"
       /\ UNCHANGED <<chunks, spans, current_element_idx>>
  /\ UNCHANGED <<text, chunk_size, chunk_overlap, words_and_spaces>>
  /\ UNCHANGED pipelineVars

\* ------------------------------------ repeated constructions in a process
\* a process that calls the two constructors any number of times, in any order
ClientsInit ==
  /\ entry = "clients"
  /\ pc = "constructing"
  /\ cfg \in Configs
  /\ CHUNK_SIZE = DefaultChunkSize
  /\ CHUNK_OVERLAP = DefaultChunkOverlap
  /\ TOP_K_RESULTS = DefaultTopK
  /\ key_exists \in BOOLEAN
  /\ SDK_AVAILABLE \in BOOLEAN
  /\ VertexAIClient_cls = [instance |-> NoVertexInstance, vertex_ai_initialized |-> FALSE]
  /\ VectorStoreClient_cls = [instance |-> NoVectorInstance,
                              initialized_by_vector_client |-> FALSE]
  /\ constructed = {}
  /\ ext = {}
  /\ init_failed = {}
  /\ files_to_process = <<>>
  /\ doc_idx = 0
  /\ doc_log = <<>>
  /\ chunk_failed = {}
  /\ all_embeddings_for_vector_store = <<>>
  /\ uuid_ctr = 0
  /\ upsert_calls = <<>>
  /\ upsert_success = <<>>
  /\ ret = <<>>
  /\ user_query = <<>>
  /\ neighbors = <<>>
  /\ prompts = <<>>
  /\ output = [label |-> "none", sources |-> <<>>]
  /\ llm_results = <<>>
  /\ match_raised = FALSE
  /\ construct_log = <<>>
  /\ init_runs = [c \in ClientClasses |-> 0]

\* VertexAIClient.__new__ reaches "if cls._instance is None" and finds None
VertexAIClient_enters(cls, sdkAvailable) == sdkAvailable /\ ~cls.instance.created

\* VectorStoreClient.__new__ finds cls._instance None
VectorStoreClient_enters(cls) == ~cls.instance.created

\* one call VertexAIClient(); object numbers the instances super().__new__
\* made, initialized tells whether the instance has its embedding_model
ConstructVertexAIClient ==
  /\ entry = "clients"
  /\ Len(construct_log) < MaxConstructions
  /\ \E initOk \in BOOLEAN, loadOk \in BOOLEAN :
       LET r == VertexAIClient_new(VertexAIClient_cls, ModuleView(VertexNames),
                                   key_exists, SDK_AVAILABLE, initOk, loadOk)
           runs == IF VertexAIClient_enters(VertexAIClient_cls, SDK_AVAILABLE)
                   THEN init_runs["VertexAIClient"] + 1
                   ELSE init_runs["VertexAIClient"]
       IN /\ constructed' = constructed \cup {"VertexAIClient"}
          /\ VertexAIClient_cls' = r.cls
          /\ ext' = ext \cup r.calls
          /\ init_failed' = init_failed \cup r.failed
          /\ init_runs' = [init_runs EXCEPT !["VertexAIClient"] = runs]
          /\ construct_log' =
               Append(construct_log,
                      [class |-> "VertexAIClient", raised |-> r.raised, object |-> runs,
                       initialized |-> r.cls.instance.embedding_model # "unset"])
  /\ UNCHANGED <<chunkerVars, configVars, VectorStoreClient_cls, ingestVars, queryVars,
                 ret, pc>>

\* one call VectorStoreClient()
ConstructVectorStoreClient ==
  /\ entry = "clients"
  /\ Len(construct_log) < MaxConstructions
  /\ \E aiInit \in {"skipped", "ok", "raised"}, connectOk \in BOOLEAN :
       LET r == VectorStoreClient_new(VectorStoreClient_cls, ModuleView(VectorNames),
                                      key_exists, aiInit, connectOk)
           runs == IF VectorStoreClient_enters(VectorStoreClient_cls)
                   THEN init_runs["VectorStoreClient"] + 1
                   ELSE init_runs["VectorStoreClient"]
       IN /\ constructed' = constructed \cup {"VectorStoreClient"}
          /\ VectorStoreClient_cls' = r.cls
          /\ ext' = ext \cup r.calls
          /\ init_failed' = init_failed \cup r.failed
          /\ init_runs' = [init_runs EXCEPT !["VectorStoreClient"] = runs]
          /\ construct_log' =
               Append(construct_log,
                      [class |-> "VectorStoreClient", raised |-> r.raised, object |-> runs,
                       initialized |-> r.cls.instance.index_endpoint # "unset"])
  /\ UNCHANGED <<chunkerVars, configVars, VertexAIClient_cls, ingestVars, queryVars,
                 ret, pc>>

\* --------------------------------------------------------- specifications
InitChunker == ChunkerInit /\ PipelineIdle

NextChunker ==
  \/ ChunkerEntry
  \/ ChunkerPass

SpecChunker == InitChunker /\ [][NextChunker]_vars

Init == ChunkerIdle /\ PipelineInit

Next ==
  \/ IngestMain
  \/ IngestInitGCS
  \/ InitVertexAIClient
  \/ InitVectorStoreClient
  \/ IngestDocument
  \/ IngestUpsert
  \/ QueryMain
  \/ EmbedQuery
  \/ FindNeighbors
  \/ FallbackAnswer
  \/ GroundedAnswer

Spec == Init /\ [][Next]_vars

InitClients == ChunkerIdle /\ ClientsInit

NextClients ==
  \/ ConstructVertexAIClient
  \/ ConstructVectorStoreClient

SpecClients == InitClients /\ [][NextClients]_vars

InitChunkerFair == ChunkerFairInit /\ PipelineIdle

\* one call of the chunker, run to its end: the interpreter does not stop in
\* the middle of the function, so a step that can be taken is taken
SpecChunkerFair == InitChunkerFair /\ [][NextChunker]_vars /\ WF_vars(NextChunker)


\* ----------------------------------------------------- chunker properties

ValidParams == 0 < chunk_overlap /\ chunk_overlap < chunk_size

WordCount(elems) == Cardinality({i \in 1..Len(elems) : ~IsSpace(elems[i])})

\* number of words among the first idx elements
WordsBefore(idx) == WordCount(SubSeq(words_and_spaces, 1, idx))

\* number of characters in the first idx elements
CharsBefore(idx) == Len(Join(SubSeq(words_and_spaces, 1, idx)))

Min(a, b) == IF a <= b THEN a ELSE b

\* C1: whenever chunk_size <= chunk_overlap the call ends in the
\* invalid-parameters error, for every text including the empty one, and
\* returns no chunk list.
C1_InvalidParametersAlwaysFail ==
  (cpc \in {"returned", "raised"} /\ chunk_size <= chunk_overlap)
    => cpc = "raised"

\* C2: for non-empty text and 0 < overlap < size every chunk is the verbatim
\* join of a contiguous range of elements (and so a verbatim substring of the
\* text), the first range starts at element 0, each later range starts at or
\* before the end of its predecessor, and the last range ends at the last
\* element.
C2_ChunksCoverInputVerbatim ==
  (cpc = "returned" /\ text # <<>> /\ ValidParams) =>
    /\ Join(words_and_spaces) = text
    /\ Len(chunks) >= 1
    /\ Len(spans) = Len(chunks)
    /\ \A i \in 1..Len(chunks) :
         /\ spans[i].from < spans[i].to
         /\ chunks[i] = Join(SubSeq(words_and_spaces, spans[i].from + 1, spans[i].to))
         /\ chunks[i] = SubSeq(text, CharsBefore(spans[i].from) + 1, CharsBefore(spans[i].to))
    /\ spans[1].from = 0
    /\ \A i \in 2..Len(chunks) :
         /\ spans[i].from > spans[i - 1].from
         /\ spans[i].from <= spans[i - 1].to
    /\ spans[Len(spans)].to = Len(words_and_spaces)

C2_Witness ==
  /\ cpc = "returned" /\ ValidParams
  /\ Len(chunks) >= 2
  /\ \E i \in 1..Len(text) - 1 : text[i] = " " /\ text[i + 1] = "\n"

\* words shared by chunk i and chunk i + 1
SharedWords(i) ==
  WordsBefore(Min(spans[i].to, spans[i + 1].to)) - WordsBefore(spans[i + 1].from)

\* words of the text from the start of chunk i on
RemainingWords(i) == WordCount(words_and_spaces) - WordsBefore(spans[i].from)

\* C3: for 0 < overlap < size each chunk starts size - overlap words after
\* its predecessor, every chunk but the last holds exactly size words, and
\* consecutive chunks share exactly overlap words, the last pair at least
\* min(overlap, remaining words).
C3_ExactWordOverlap ==
  (cpc = "returned" /\ ValidParams) =>
    /\ \A i \in 1..Len(chunks) - 1 :
         /\ WordsBefore(spans[i + 1].from)
              = WordsBefore(spans[i].from) + chunk_size - chunk_overlap
         /\ WordsBefore(spans[i].to) - WordsBefore(spans[i].from) = chunk_size
         /\ SharedWords(i) >= Min(chunk_overlap, RemainingWords(i + 1))
         /\ (i + 1 < Len(chunks) => SharedWords(i) = chunk_overlap)
         /\ SharedWords(i) <= chunk_overlap

C3_Witness ==
  /\ cpc = "returned" /\ ValidParams
  /\ Len(chunks) >= 3
  /\ SharedWords(1) = chunk_overlap

\* C4: a text of N words, 1 <= N <= chunk_size, with any whitespace around
\* them, yields exactly one chunk, equal to the whole text.
C4_ShortTextIsOneChunk ==
  (/\ cpc = "returned"
   /\ chunk_overlap < chunk_size
   /\ WordCount(SplitElements(text)) \in 1..chunk_size)
    => chunks = <<text>>

\* C5: a text of exactly 2 * chunk_size - chunk_overlap words yields exactly
\* two chunks, the second starting at word index chunk_size - chunk_overlap.
C5_TwoChunksAtExactLength ==
  (/\ cpc = "returned"
   /\ ValidParams
   /\ WordCount(SplitElements(text)) = 2 * chunk_size - chunk_overlap)
    => /\ Len(chunks) = 2
       /\ WordsBefore(spans[2].from) = chunk_size - chunk_overlap

\* ---------------------------------------------------- pipeline properties

\* C6: a chunking failure for one document skips that document only: after
\* it the ingest run is still going through the list, or ends with the final
\* upsert step.
C6_ChunkingFailureSkipsOnlyThatDocument ==
  chunk_failed # {} => pc \in {"loop", "upsert", "done"}

\* the records document i must contribute, from what was fetched and what
\* the embedding call gave back: <<name, chunk index, chunk text, embedding>>
ExpectedOfDoc(i) ==
  LET l == doc_log[i]
      c == basic_word_chunker(l.content.text, CHUNK_SIZE, CHUNK_OVERLAP).chunks
      kept == {j \in 1..Len(c) : l.embeddings[j] # "null"}
      nth(k) == CHOOSE j \in kept : Cardinality({m \in kept : m < j}) = k - 1
  IN IF /\ l.content.present
        /\ l.content.text # <<>>
        /\ c # <<>>
        /\ l.requested
        /\ Len(l.embeddings) = Len(c)
     THEN [k \in 1..Cardinality(kept) |->
             <<files_to_process[i], nth(k) - 1, c[nth(k)], l.embeddings[nth(k)]>>]
     ELSE <<>>

RECURSIVE ExpectedUpTo(_)
ExpectedUpTo(n) == IF n = 0 THEN <<>> ELSE ExpectedUpTo(n - 1) \o ExpectedOfDoc(n)

PayloadView(payload) ==
  [k \in 1..Len(payload) |->
     <<payload[k].metadata.source_document_name, payload[k].metadata.chunk_index,
       payload[k].metadata.text_preview, payload[k].embedding>>]

\* C7: at most one upsert call per ingest run, made only after the last
\* document was gone through, with exactly the records of the documents that
\* were fetched non-empty, chunked and embedded with a matching count, one
\* per chunk with a non-null embedding, in order; a missing, empty or
\* mismatching document adds nothing and does not stop the loop.
C7_OneFinalUpsertOfAllRecords ==
  /\ Len(upsert_calls) <= 1
  /\ upsert_calls # <<>> =>
       /\ pc = "done"
       /\ doc_idx = Len(files_to_process)
       /\ Len(doc_log) = Len(files_to_process)
       /\ PayloadView(upsert_calls[1]) = ExpectedUpTo(Len(doc_log))
  /\ (entry = "ingest" /\ pc = "done" /\ ExpectedUpTo(Len(doc_log)) # <<>>)
       => Len(upsert_calls) = 1
  /\ (entry = "ingest" /\ pc \in {"loop", "upsert", "done"}) =>
       /\ Len(doc_log) = doc_idx
       /\ PayloadView(all_embeddings_for_vector_store) = ExpectedUpTo(doc_idx)
       /\ (pc = "loop") = (doc_idx < Len(files_to_process))
  /\ pc = "raised" => CHUNK_SIZE <= CHUNK_OVERLAP

C7_Witness ==
  /\ pc = "done"
  /\ Len(upsert_calls) = 1
  /\ Len(doc_log) = 3
  /\ ~doc_log[1].content.present
  /\ doc_log[2].requested /\ Len(doc_log[2].embeddings) = 4
  /\ doc_log[3].requested /\ doc_log[3].embeddings = <<"null", "vec", "vec">>
  /\ Len(upsert_calls[1]) = 2

DocContributes(i) == ExpectedOfDoc(i) # <<>>

\* C8: a completed ingest run returns a summary whose counts of documents
\* processed, documents skipped, chunks embedded and records upserted, and
\* whose upsert flag, are those of the run.
C8_SummaryReturned ==
  (entry = "ingest" /\ pc = "done") =>
    ret = << [processed |-> Cardinality({i \in 1..Len(doc_log) : DocContributes(i)}),
              skipped |-> Cardinality({i \in 1..Len(doc_log) : ~DocContributes(i)}),
              chunks_embedded |-> Len(all_embeddings_for_vector_store),
              records_upserted |-> IF upsert_success = <<TRUE>>
                                   THEN Len(upsert_calls[1]) ELSE 0,
              upsert_succeeded |-> upsert_success = <<TRUE>>] >>

\* calls that are part of the run proper, after the clients are set up
RunCalls ==
  {"download", "get_embeddings", "upsert_datapoints", "match",
   "TextGenerationModel.from_pretrained", "predict"}

\* C9: when the initialisation of a collaborator failed (object store,
\* Vertex AI SDK, embedding model, index endpoint) the run makes no fetch, no
\* embedding request, no upsert, no neighbor search and no completion.
C9_InitFailureAbortsRun ==
  init_failed # {} => ext \cap RunCalls = {}

\* C10: with a required option absent or a placeholder no client is
\* constructed and no service is called; a configuration whose values are all
\* real, chunk overlap 0 with a positive chunk size included, is not rejected.
C10_ConfigCheckedBeforeCollaborators ==
  /\ (\E n \in StrOptions : cfg[n] # "valid") => (constructed = {} /\ ext = {})
  /\ (cfg = ValidConfig /\ CHUNK_SIZE > 0 /\ CHUNK_OVERLAP >= 0 /\ TOP_K_RESULTS > 0)
       => pc # "config_error"


\* ------------------------------------------------------ record id properties

\* the part of a record id in front of its random disambiguator
IdWithoutDisambiguator(id) == SubSeq(id, 1, Len(id) - 1)

\* C11: the id of every created record is built from the source document, the
\* sequence index of the chunk and a fresh disambiguator: no two records share
\* an id, and what an id holds besides the disambiguator already tells the
\* (source document, sequence index) pair of its record
C11_IdDerivedFromDocumentAndIndex ==
  LET rs == all_embeddings_for_vector_store
  IN \A i, j \in 1..Len(rs) :
       /\ (rs[i].id = rs[j].id => i = j)
       /\ (IdWithoutDisambiguator(rs[i].id) = IdWithoutDisambiguator(rs[j].id)
             => /\ rs[i].metadata.source_document_name = rs[j].metadata.source_document_name
                /\ rs[i].metadata.chunk_index = rs[j].metadata.chunk_index)

\* C16: parsing the id of a created record the way the query run does gives
\* back the document the record was created for
C16_RecordIdRoundTrip ==
  \A i \in 1..Len(all_embeddings_for_vector_store) :
    LET r == all_embeddings_for_vector_store[i]
    IN /\ HasChunkSeparator(r.id)
       /\ SplitFirst(r.id) = r.metadata.source_document_name

\* ------------------------------------------------------- query properties

\* a query run that reached its end after the nearest-neighbor search
QueryRunSearched == entry = "query" /\ pc = "done" /\ "match" \in ext

\* C12, for every non-null result: with zero neighbors returned, the completion is asked once,
\* with the bare query, and every non-null result is shown as a
\* general-knowledge answer
C12_NonNullFallbackIsPresented ==
  (QueryRunSearched /\ ~match_raised /\ neighbors = <<>>)
    => /\ prompts = <<user_query>>
       /\ Len(llm_results) = 1
       /\ (llm_results[1] # "null" => output.label = "general_knowledge")

\* C12, for non-empty results: with zero neighbors returned, the completion is asked exactly
\* once, with the bare query and never with the context prompt; a result that
\* is neither null nor the empty string is shown as a general-knowledge answer,
\* a null or empty result as "could not generate an answer"
C12_NonEmptyFallbackIsPresented ==
  (QueryRunSearched /\ ~match_raised /\ neighbors = <<>>)
    => /\ prompts = <<user_query>>
       /\ prompts[1] # PromptForLLM(neighbors, user_query)
       /\ Len(llm_results) = 1
       /\ output.sources = <<>>
       /\ output.label = IF llm_results[1] \in {"null", "empty"}
                         THEN "no_answer" ELSE "general_knowledge"

C12_Witness ==
  /\ QueryRunSearched /\ ~match_raised /\ neighbors = <<>>
  /\ llm_results = <<"text">>
  /\ output.label = "general_knowledge"

\* the text of an id in front of its first "_chunk_"
DocumentPrefix(id) ==
  LET k == CHOOSE n \in 1..Len(id) :
             id[n] = "_chunk_" /\ \A m \in 1..(n - 1) : id[m] # "_chunk_"
  IN SubSeq(id, 1, k - 1)

\* s lists, in ascending order and each once, the prefixes of the ids of ns
IsCitedList(s, ns) ==
  /\ {s[i] : i \in 1..Len(s)}
       = {DocumentPrefix(ns[i].id) :
            i \in {j \in 1..Len(ns) : \E n \in 1..Len(ns[j].id) : ns[j].id[n] = "_chunk_"}}
  /\ \A i, j \in 1..Len(s) : i < j => StrLess(s[i], s[j])

C14_ChunkerTerminates ==
  /\ (cpc = "entry" /\ chunk_size > chunk_overlap) ~> (cpc = "returned")
  /\ [][cpc = "loop"
          => \/ cpc' = "returned"
             \/ /\ cpc' = "loop"
                /\ current_element_idx' >= current_element_idx + 1
                /\ current_element_idx' < Len(words_and_spaces)]_vars
  /\ [](Len(chunks) <= Len(words_and_spaces))

\* a run of several passes that came to its end
C14_Witness ==
  /\ cpc = "returned"
  /\ chunk_size > chunk_overlap
  /\ Len(chunks) >= 3
  /\ current_element_idx >= 2

\* ------------------------------------------------- singleton properties

\* the positions of the calls of class c in the log
CallsOf(c) == {i \in 1..Len(construct_log) : construct_log[i].class = c}

\* C15: whatever the order of the constructions, the initialisation body of a
\* class is run at most once, and all the calls of a class that return give
\* the same instance
C15_InitializedAtMostOnce ==
  \A c \in ClientClasses :
    /\ init_runs[c] <= 1
    /\ \A i, j \in CallsOf(c) :
         (~construct_log[i].raised /\ ~construct_log[j].raised)
           => construct_log[i].object = construct_log[j].object

\* both classes constructed, one of them twice, every call returning
C15_Witness ==
  /\ Len(construct_log) = 3
  /\ \A i \in 1..3 : ~construct_log[i].raised /\ construct_log[i].object = 1
  /\ construct_log[1].class = "VertexAIClient"
  /\ construct_log[2].class = "VectorStoreClient"
  /\ construct_log[3].class = "VertexAIClient"
  /\ init_runs = [c \in ClientClasses |-> 1]

\* C17: after a call of a constructor has raised, a later call of the same
\* constructor raises too or returns an instance that has its attributes
C17_NoInstanceAfterFailedInit ==
  \A c \in ClientClasses :
    \A i, j \in CallsOf(c) :
      (i < j /\ construct_log[i].raised /\ ~construct_log[j].raised)
        => construct_log[j].initialized

====
